---- MODULE Spec2Model ----
(***************************************************************************)
(* State-machine model of backend/main.py: a FastAPI service with a login  *)
(* route that issues a signed session cookie, a protected message-read     *)
(* route and an open message-append route over three SQL tables.           *)
(*                                                                         *)
(* Handlers are sync functions run in a thread pool, so requests are      *)
(* served concurrently and every handler is split at its database          *)
(* statements: a request slot walks through                                *)
(*     deps -> body [-> create] [-> insert] -> exit.                       *)
(* Spec serves one request at a time with every kind of request,           *)
(* ConcurrentSpec serves two at a time, LifecycleSpec adds process starts  *)
(* and stops.  Times are whole seconds, the resolution of the exp claim.   *)
(***************************************************************************)
EXTENDS Integers, Sequences, FiniteSets, TLC

\* ------------------------------------------------------------------ bounds
MaxMessages == 2        \* rows the messages table may hold
MaxBoots == 2           \* process starts

Slots == {"r1", "r2"}   \* requests in flight at the same time

\* ------------------------------------------------------- program constants
RoleColumnLen == 20     \* Message.role = Column(String(20))
DefaultExpireHours == 1 \* os.getenv("ACCESS_TOKEN_EXPIRE_HOURS", "1")
SecondsPerHour == 3600  \* timedelta(hours=...)
Unauthorized == 401     \* HTTPException(status_code=401)
Ok == 200               \* status of a handler that returns
ServerError == 500      \* status of an unhandled exception

\* ------------------------------------------------------------ input values
None == "<None>"        \* os.getenv of an unset variable, Cookie(None)

SecretKeys == {None, "", "k1"}
AdminUsernames == {None, "admin"}
AdminPasswords == {None, "secret", "hunter2"}
ExpireHours == {DefaultExpireHours, 2}
Salts == {"s1"}

Usernames == {"admin", "mallory"}
Passwords == {"secret", "hunter2"}
ConversationIds == {41, 42}
Roles == {"user", "assistant-with-tools!"}      \* 4 and 21 characters
Contents == {"hi"}

\* Instants the clock visits: the start, the last second at which a token
\* issued at the start with the default lifetime is accepted, and the next.
Times == {0, DefaultExpireHours * SecondsPerHour,
          DefaultExpireHours * SecondsPerHour + 1}

VARIABLES
    proc,           \* "down" | "failed" | "up"
    env,            \* module-level configuration read from the environment
    boots,          \* number of process starts so far
    now,            \* datetime.utcnow(), in seconds
    users,          \* table users, in rowid order
    conversations,  \* table conversations, in rowid order
    messages,       \* table messages, in rowid order
    pc,             \* per slot: position of the request
    req,            \* per slot: the request
    resp,           \* per slot: the response
    dbOpen,         \* per slot: the request holds a storage session
    convo           \* per slot: local variable convo of post_message

vars == <<proc, env, boots, now, users, conversations, messages,
          pc, req, resp, dbOpen, convo>>

dbVars == <<users, conversations, messages>>
procVars == <<proc, env, boots>>
clockVars == <<now>>

\* ----------------------------------------------------------------- helpers
RECURSIVE MaxOf(_)
MaxOf(S) == IF S = {} THEN 0
            ELSE LET x == CHOOSE y \in S : TRUE
                     m == MaxOf(S \ {x})
                 IN IF x > m THEN x ELSE m

Range(s) == {s[i] : i \in 1..Len(s)}

\* Variant: the largest id is handed out again once the table has rows.
NextIdRepeated(table) ==
    IF table = <<>> THEN 1 ELSE MaxOf({table[i].id : i \in 1..Len(table)})

\* Integer primary key without AUTOINCREMENT: largest rowid plus one.
NextId(table) == MaxOf({table[i].id : i \in 1..Len(table)}) + 1

\* ---------------------------------------------------------------- security
\* pwd_context.hash: salted bcrypt; the digest depends on password and salt.
Hash(password, salt) == [salt |-> salt, digest |-> <<password, salt>>]

\* Variant: the password is compared with the salt, never with the hash.
VerifyAnyPassword(password, hash) == hash.salt \in Salts

\* pwd_context.verify: recompute with the salt kept in the hash.
Verify(password, hash) == Hash(password, hash.salt) = hash

\* HMAC over the claims under the signing key.
Mac(sub, exp, key) == <<sub, exp, key>>

\* jwt.encode({"sub": ..., "exp": ...}, SECRET_KEY, algorithm=ALGORITHM)
JwtEncode(sub, exp, key) ==
    [kind |-> "jwt", sub |-> sub, exp |-> exp, sig |-> Mac(sub, exp, key)]

NoCookie == [kind |-> "none"]       \* request without a session cookie
EmptyCookie == [kind |-> "empty"]   \* session=""
Garbage == [kind |-> "garbage"]     \* a value that is not a JWT

\* jwt.decode(session, SECRET_KEY, algorithms=[ALGORITHM]) at time t:
\* the signature is checked first, then the exp claim (expired iff exp < t).
JwtDecode(session, key, t) ==
    IF session.kind # "jwt"
    THEN [error |-> "JWTError"]
    ELSE IF session.sig # Mac(session.sub, session.exp, key)
    THEN [error |-> "JWTError"]
    ELSE IF session.exp < t
    THEN [error |-> "ExpiredSignatureError"]
    ELSE [error |-> "", sub |-> session.sub, exp |-> session.exp]

\* Variant: only the base class is caught, an expired token escapes.
CaughtOnlyBaseError(error) == error = "JWTError"

\* except JWTError: ExpiredSignatureError and JWTClaimsError derive from it.
CaughtAsJWTError(error) == error \in {"JWTError", "ExpiredSignatureError"}

\* require_login: 0 when it returns, otherwise the status of the failure.
require_login(session, key, t) ==
    IF session.kind \in {"none", "empty"}
    THEN Unauthorized
    ELSE LET d == JwtDecode(session, key, t)
         IN IF d.error = "" THEN 0
            ELSE IF CaughtAsJWTError(d.error) THEN Unauthorized
            ELSE ServerError

\* Variant: the read route is declared without the session guard.
RouteDepsUnguardedRead(route) == <<"get_db">>

\* Variant: the append route is declared with the session guard as well.
RouteDepsGuardedAppend(route) ==
    IF route = "login" THEN <<"get_db">> ELSE <<"require_login", "get_db">>

\* Dependencies of each route, in the order FastAPI resolves them.
RouteDeps(route) ==
    CASE route = "login" -> <<"get_db">>
      [] route = "get_messages" -> <<"require_login", "get_db">>
      [] route = "post_message" -> <<"get_db">>

\* Outcome of resolving the dependencies of a route for a request: the
\* failure status of the first dependency that raises (0 when none does) and
\* whether get_db ran before that.
RECURSIVE SolveDeps(_, _, _, _, _)
SolveDeps(deps, session, key, t, opened) ==
    IF deps = <<>> THEN [status |-> 0, opened |-> opened]
    ELSE IF Head(deps) = "get_db"
    THEN SolveDeps(Tail(deps), session, key, t, TRUE)
    ELSE LET st == require_login(session, key, t)
         IN IF st # 0 THEN [status |-> st, opened |-> opened]
            ELSE SolveDeps(Tail(deps), session, key, t, opened)

\* ----------------------------------------------------------------- storage
\* Query.filter_by(username=...).first()
FindUser(table, username) ==
    SelectSeq(table, LAMBDA u : u.username = username)

\* Variant: the lookup reports a conversation whether or not one is stored.
FindConversationAlways(table, cid) == <<[id |-> cid]>>

\* Query.filter_by(id=...).first() on conversations
FindConversation(table, cid) ==
    SelectSeq(table, LAMBDA c : c.id = cid)

\* Variant: the table has no primary key, every INSERT is accepted.
ConversationInsertUnchecked(table, cid) == Len(table) >= 0

\* conversations.id is the primary key: an INSERT of a present id is refused.
ConversationInsertOk(table, cid) ==
    \A i \in 1..Len(table) : table[i].id # cid

\* Variant: the query has no filter, every row is selected.
FilterNothing(table, cid) == SelectSeq(table, LAMBDA m : cid = cid)

\* Query.filter_by(conversation_id=...)
FilterByConversation(table, cid) ==
    SelectSeq(table, LAMBDA m : m.conversation_id = cid)

\* The dictionary get_messages builds for a row.
MessageOut(m) ==
    [id |-> m.id, role |-> m.role, content |-> m.content,
     created_at |-> m.created_at]

\* The dictionary post_message returns for a row.
MessageRecord(m) ==
    [id |-> m.id, conversation_id |-> m.conversation_id, role |-> m.role,
     content |-> m.content, created_at |-> m.created_at]

\* order_by(asc(Message.created_at)): every arrangement of the rows that is
\* ascending in created_at; the order of rows with equal created_at is not
\* fixed by the statement.
OrderByCreatedAt(rows) ==
    LET n == Len(rows)
        Perms == {f \in [1..n -> 1..n] : \A i, j \in 1..n : i # j => f[i] # f[j]}
    IN { [i \in 1..n |-> rows[f[i]]] :
           f \in {g \in Perms : \A i \in 1..(n - 1) :
                      rows[g[i]].created_at <= rows[g[i + 1]].created_at} }

\* ---------------------------------------------------------------- requests
NoReq == [route |-> "none", username |-> "", password |-> "", cid |-> 0,
          role |-> "", content |-> "", session |-> NoCookie]

NoResp == [status |-> 0, set_cookie |-> NoCookie, body |-> <<>>, at |-> 0]

LoginRequests ==
    {[NoReq EXCEPT !.route = "login", !.username = u, !.password = p] :
        u \in Usernames, p \in Passwords}

\* Variant: the token lifetime is the default, not the configured one.
loginDefaultLifetime(table, data, key, hours, t) ==
    LET user == FindUser(table, data.username)
    IN IF user = <<>> \/ ~Verify(data.password, Head(user).password_hash)
       THEN [NoResp EXCEPT !.status = Unauthorized, !.at = t]
       ELSE [status |-> Ok,
             set_cookie |-> JwtEncode(Head(user).username,
                                      t + DefaultExpireHours * SecondsPerHour,
                                      key),
             body |-> <<[status |-> "ok"]>>,
             at |-> t]

\* login: the response for credentials data at time t.
login(table, data, key, hours, t) ==
    LET user == FindUser(table, data.username)
    IN IF user = <<>> \/ ~Verify(data.password, Head(user).password_hash)
       THEN [NoResp EXCEPT !.status = Unauthorized, !.at = t]
       ELSE [status |-> Ok,
             set_cookie |-> JwtEncode(Head(user).username,
                                      t + hours * SecondsPerHour, key),
             body |-> <<[status |-> "ok"]>>,
             at |-> t]

\* Session cookies the service can have handed out by now: the cookie of
\* every login that succeeds at some instant up to now.
Issued ==
    {login(users, q, env.SECRET_KEY, env.ACCESS_TOKEN_EXPIRE_HOURS, t).set_cookie :
        q \in {d \in LoginRequests :
                 FindUser(users, d.username) # <<>>
                 /\ Verify(d.password, Head(FindUser(users, d.username)).password_hash)},
        t \in {u \in Times : u <= now}}

\* A cookie with the signature or the expiry changed.
Tampered(t) == {[t EXCEPT !.sig = Mac(t.sub, t.exp, "not-the-key")],
                [t EXCEPT !.exp = @ + SecondsPerHour]}

\* What a client can put in the session cookie: nothing, an empty value,
\* garbage, a cookie it was given, or such a cookie tampered with.
SessionChoices ==
    {NoCookie, EmptyCookie, Garbage} \cup Issued
        \cup UNION {Tampered(t) : t \in Issued}

GetRequests(sessions) ==
    {[NoReq EXCEPT !.route = "get_messages", !.cid = c, !.session = s] :
        c \in ConversationIds, s \in sessions}

PostRequests(roles, sessions) ==
    {[NoReq EXCEPT !.route = "post_message", !.cid = c, !.role = ro,
                   !.content = co, !.session = s] :
        c \in ConversationIds, ro \in roles, co \in Contents,
        s \in sessions}

\* Requests of a client served one at a time.
Requests ==
    LoginRequests \cup GetRequests(SessionChoices)
        \cup PostRequests(Roles, SessionChoices)

\* Requests of clients served at the same time.
ConcurrentRequests ==
    {q \in LoginRequests : q.password = "secret"}
        \cup GetRequests({NoCookie} \cup Issued)
        \cup PostRequests({"user"}, {NoCookie})

\* Environments the process can be started with.
Environments ==
    [SECRET_KEY : SecretKeys, ADMIN_USERNAME : AdminUsernames,
     ADMIN_PASSWORD : AdminPasswords, ACCESS_TOKEN_EXPIRE_HOURS : ExpireHours]

NoEnv == [SECRET_KEY |-> None, ADMIN_USERNAME |-> None,
          ADMIN_PASSWORD |-> None,
          ACCESS_TOKEN_EXPIRE_HOURS |-> DefaultExpireHours]

\* Variant: only an unset variable counts, an empty one passes.
FalsyOnlyUnset(x) == x = None

\* Python truthiness of an optional string: None and "" are falsy.
Falsy(x) == x \in {None, ""}

InFlightPosts ==
    Cardinality({r \in Slots : req[r].route = "post_message"
                               /\ pc[r] \in {"deps", "body", "create", "insert"}})

\* -------------------------------------------------------------------- init
\* Variant: the admin row is added without looking for an existing one.
startupAlwaysInsert(table, e, salt) ==
    IF Falsy(e.ADMIN_USERNAME) \/ Falsy(e.ADMIN_PASSWORD)
    THEN table
    ELSE Append(table, [id |-> NextId(table),
                        username |-> e.ADMIN_USERNAME,
                        password_hash |-> Hash(e.ADMIN_PASSWORD, salt)])

\* Variant: an existing admin row gets the configured password.
startupOverwrite(table, e, salt) ==
    IF Falsy(e.ADMIN_USERNAME) \/ Falsy(e.ADMIN_PASSWORD)
    THEN table
    ELSE IF FindUser(table, e.ADMIN_USERNAME) = <<>>
    THEN Append(table, [id |-> NextId(table),
                        username |-> e.ADMIN_USERNAME,
                        password_hash |-> Hash(e.ADMIN_PASSWORD, salt)])
    ELSE [i \in 1..Len(table) |->
             IF table[i].username = e.ADMIN_USERNAME
             THEN [table[i] EXCEPT !.password_hash =
                                       Hash(e.ADMIN_PASSWORD, salt)]
             ELSE table[i]]

\* startup(): the admin bootstrap on the users table.
startup(table, e, salt) ==
    IF Falsy(e.ADMIN_USERNAME) \/ Falsy(e.ADMIN_PASSWORD)
    THEN table
    ELSE IF FindUser(table, e.ADMIN_USERNAME) = <<>>
    THEN Append(table, [id |-> NextId(table),
                        username |-> e.ADMIN_USERNAME,
                        password_hash |-> Hash(e.ADMIN_PASSWORD, salt)])
    ELSE table

\* The service after module import and the startup event on an empty
\* database, for every environment in which it starts.
Init ==
    /\ proc = "up"
    /\ env \in {e \in Environments : ~Falsy(e.SECRET_KEY)}
    /\ boots = 1
    /\ now = 0
    /\ \E salt \in Salts : users = startup(<<>>, env, salt)
    /\ conversations = <<>>
    /\ messages = <<>>
    /\ pc = [r \in Slots |-> "idle"]
    /\ req = [r \in Slots |-> NoReq]
    /\ resp = [r \in Slots |-> NoResp]
    /\ dbOpen = [r \in Slots |-> FALSE]
    /\ convo = [r \in Slots |-> <<>>]

\* ----------------------------------------------------------------- process
\* Module import followed by the startup event.
Boot ==
    /\ proc \in {"down", "failed"}
    /\ boots < MaxBoots
    /\ \E e \in Environments, salt \in Salts :
        /\ env' = e
        /\ IF Falsy(e.SECRET_KEY)
           THEN /\ proc' = "failed"
                /\ users' = users
           ELSE /\ proc' = "up"
                /\ users' = startup(users, e, salt)
    /\ boots' = boots + 1
    /\ UNCHANGED <<clockVars, conversations, messages, pc, req, resp,
                   dbOpen, convo>>

\* The server stops once no request is in flight.
Shutdown ==
    /\ proc = "up"
    /\ \A r \in Slots : pc[r] = "idle"
    /\ proc' = "down"
    /\ UNCHANGED <<env, boots, clockVars, dbVars, pc, req, resp,
                   dbOpen, convo>>

\* The wall clock advances.
Tick ==
    /\ \E t \in Times : t > now /\ now' = t
    /\ UNCHANGED <<procVars, dbVars, pc, req, resp, dbOpen, convo>>

\* ---------------------------------------------------------------- handlers
\* A request arrives at the running server and is given a free slot (the
\* first one: slots are interchangeable).
Free(r) == pc[r] = "idle"

Receive(r, requests) ==
    /\ proc = "up"
    /\ Free(r)
    /\ r = "r1" \/ ~Free("r1")
    /\ \E q \in requests :
        /\ q.route = "post_message" =>
               Len(messages) + InFlightPosts < MaxMessages
        /\ req' = [req EXCEPT ![r] = q]
    /\ pc' = [pc EXCEPT ![r] = "deps"]
    /\ UNCHANGED <<procVars, clockVars, dbVars, resp, dbOpen, convo>>

\* FastAPI resolves the route's dependencies before the handler body: a
\* dependency that raises ends the request, get_db opens a storage session.
Deps(r) ==
    /\ pc[r] = "deps"
    /\ LET d == SolveDeps(RouteDeps(req[r].route), req[r].session,
                          env.SECRET_KEY, now, FALSE)
       IN /\ dbOpen' = [dbOpen EXCEPT ![r] = d.opened]
          /\ IF d.status = 0
             THEN /\ pc' = [pc EXCEPT ![r] = "body"]
                  /\ resp' = resp
             ELSE /\ pc' = [pc EXCEPT ![r] = "exit"]
                  /\ resp' = [resp EXCEPT ![r] =
                                 [NoResp EXCEPT !.status = d.status, !.at = now]]
    /\ UNCHANGED <<procVars, clockVars, dbVars, req, convo>>

LoginBody(r) ==
    /\ pc[r] = "body"
    /\ req[r].route = "login"
    /\ LET out == login(users, req[r], env.SECRET_KEY,
                        env.ACCESS_TOKEN_EXPIRE_HOURS, now)
       IN resp' = [resp EXCEPT ![r] = out]
    /\ pc' = [pc EXCEPT ![r] = "exit"]
    /\ UNCHANGED <<procVars, clockVars, dbVars, req, dbOpen, convo>>

\* get_messages: the bodies the query can produce for conversation cid.
get_messages(table, cid) ==
    { [i \in 1..Len(msgs) |-> MessageOut(msgs[i])] :
        msgs \in OrderByCreatedAt(FilterByConversation(table, cid)) }

\* Variant: the read creates the conversation it is asked about.
GetBodyMaterializing(r) ==
    /\ pc[r] = "body"
    /\ req[r].route = "get_messages"
    /\ \E b \in get_messages(messages, req[r].cid) :
        resp' = [resp EXCEPT ![r] =
                    [NoResp EXCEPT !.status = Ok, !.body = b, !.at = now]]
    /\ conversations' =
           IF ConversationInsertOk(conversations, req[r].cid)
           THEN Append(conversations, [id |-> req[r].cid])
           ELSE conversations
    /\ pc' = [pc EXCEPT ![r] = "exit"]
    /\ UNCHANGED <<procVars, clockVars, users, messages, req, dbOpen, convo>>

GetBody(r) ==
    /\ pc[r] = "body"
    /\ req[r].route = "get_messages"
    /\ \E b \in get_messages(messages, req[r].cid) :
        resp' = [resp EXCEPT ![r] =
                    [NoResp EXCEPT !.status = Ok, !.body = b, !.at = now]]
    /\ pc' = [pc EXCEPT ![r] = "exit"]
    /\ UNCHANGED <<procVars, clockVars, dbVars, req, dbOpen, convo>>

\* post_message, first statement: look the conversation up.
PostCheck(r) ==
    /\ pc[r] = "body"
    /\ req[r].route = "post_message"
    /\ convo' = [convo EXCEPT ![r] = FindConversation(conversations, req[r].cid)]
    /\ pc' = [pc EXCEPT ![r] =
                 IF convo'[r] = <<>> THEN "create" ELSE "insert"]
    /\ UNCHANGED <<procVars, clockVars, dbVars, req, resp, dbOpen>>

\* post_message, "if not convo": add the conversation and commit.  The
\* commit raises IntegrityError when the id has been inserted meanwhile.
PostCreate(r) ==
    /\ pc[r] = "create"
    /\ IF ConversationInsertOk(conversations, req[r].cid)
       THEN /\ conversations' = Append(conversations, [id |-> req[r].cid])
            /\ pc' = [pc EXCEPT ![r] = "insert"]
            /\ resp' = resp
       ELSE /\ conversations' = conversations
            /\ pc' = [pc EXCEPT ![r] = "exit"]
            /\ resp' = [resp EXCEPT ![r] =
                           [NoResp EXCEPT !.status = ServerError, !.at = now]]
    /\ UNCHANGED <<procVars, clockVars, users, messages, req, dbOpen,
                   convo>>

\* Variant: role and content are stored in each other's column.
NewMessageSwapped(table, cid, message, t) ==
    [id |-> NextId(table), conversation_id |-> cid, role |-> message.content,
     content |-> message.role, created_at |-> t]

\* The row post_message adds: id and created_at are assigned at the INSERT.
NewMessage(table, cid, message, t) ==
    [id |-> NextId(table), conversation_id |-> cid, role |-> message.role,
     content |-> message.content, created_at |-> t]

\* Variant: the table is rewritten with the new row alone.
InsertRowReplacing(table, row) == <<row>>

\* db.add(row); db.commit(): the row goes to the end of the table.
InsertRow(table, row) == Append(table, row)

\* post_message, second part: add the message, commit, refresh, return.
PostInsert(r) ==
    /\ pc[r] = "insert"
    /\ LET msg == NewMessage(messages, req[r].cid, req[r], now)
       IN /\ messages' = InsertRow(messages, msg)
          /\ LET row == CHOOSE m \in Range(messages') : m.id = msg.id
             IN resp' = [resp EXCEPT ![r] =
                            [NoResp EXCEPT !.status = Ok,
                                           !.body = <<MessageRecord(row)>>,
                                           !.at = now]]
    /\ pc' = [pc EXCEPT ![r] = "exit"]
    /\ UNCHANGED <<procVars, clockVars, users, conversations, req,
                   dbOpen, convo>>

\* Variant: the session is closed after a handler that returned only.
ExitWithoutFinally(r) ==
    /\ pc[r] = "exit"
    /\ dbOpen' = [dbOpen EXCEPT ![r] = IF resp[r].status = Ok THEN FALSE ELSE @]
    /\ pc' = [pc EXCEPT ![r] = "idle"]
    /\ req' = [req EXCEPT ![r] = NoReq]
    /\ resp' = [resp EXCEPT ![r] = NoResp]
    /\ convo' = [convo EXCEPT ![r] = <<>>]
    /\ UNCHANGED <<procVars, clockVars, dbVars>>

\* The response is ready; get_db's finally closes the storage session on
\* every way out, the response is delivered and the slot is free again.
Exit(r) ==
    /\ pc[r] = "exit"
    /\ dbOpen' = [dbOpen EXCEPT ![r] = FALSE]
    /\ pc' = [pc EXCEPT ![r] = "idle"]
    /\ req' = [req EXCEPT ![r] = NoReq]
    /\ resp' = [resp EXCEPT ![r] = NoResp]
    /\ convo' = [convo EXCEPT ![r] = <<>>]
    /\ UNCHANGED <<procVars, clockVars, dbVars>>

\* The steps of the request in slot r.
Handle(r) ==
    \/ Deps(r)
    \/ LoginBody(r)
    \/ GetBody(r)
    \/ PostCheck(r)
    \/ PostCreate(r)
    \/ PostInsert(r)
    \/ Exit(r)

\* Requests served one at a time, with every kind of request.
Next ==
    \/ Tick
    \/ Receive("r1", Requests)
    \/ Handle("r1")

Spec == Init /\ [][Next]_vars

\* Requests served concurrently.
ConcurrentInit ==
    /\ Init
    /\ env = [SECRET_KEY |-> "k1", ADMIN_USERNAME |-> "admin",
              ADMIN_PASSWORD |-> "secret",
              ACCESS_TOKEN_EXPIRE_HOURS |-> DefaultExpireHours]

ConcurrentNext ==
    \/ Tick
    \/ \E r \in Slots : Receive(r, ConcurrentRequests)
    \/ \E r \in Slots : Handle(r)

ConcurrentSpec == ConcurrentInit /\ [][ConcurrentNext]_vars

\* The process from its first start on, restarted with any environment,
\* requests served one at a time while it is up.
LifecycleInit ==
    /\ proc = "down"
    /\ env = NoEnv
    /\ boots = 0
    /\ now = 0
    /\ users = <<>>
    /\ conversations = <<>>
    /\ messages = <<>>
    /\ pc = [r \in Slots |-> "idle"]
    /\ req = [r \in Slots |-> NoReq]
    /\ resp = [r \in Slots |-> NoResp]
    /\ dbOpen = [r \in Slots |-> FALSE]
    /\ convo = [r \in Slots |-> <<>>]

LifecycleNext ==
    \/ Boot
    \/ Shutdown
    \/ Tick
    \/ Receive("r1", ConcurrentRequests)
    \/ Handle("r1")

LifecycleSpec == LifecycleInit /\ [][LifecycleNext]_vars

TypeOK ==
    /\ proc \in {"down", "failed", "up"}
    /\ boots \in 0..MaxBoots
    /\ now \in Times
    /\ \A r \in Slots : pc[r] \in {"idle", "deps", "body", "create",
                                   "insert", "exit"}
    /\ Len(messages) <= MaxMessages

\* ------------------------------------------------------------------ claims
\* The request in slot r has its response ready.
Answered(r, route) == pc[r] = "exit" /\ req[r].route = route

\* The credentials match a stored user's password hash.
Matching(data) ==
    \E i \in 1..Len(users) :
        /\ users[i].username = data.username
        /\ users[i].password_hash.digest
               = <<data.password, users[i].password_hash.salt>>

\* A session cookie that is present, signed with the key, and not expired at t.
ValidSession(session, key, t) ==
    /\ session.kind = "jwt"
    /\ session.sig = <<session.sub, session.exp, key>>
    /\ session.exp >= t

\* C1: a login with credentials matching a stored hash succeeds and sets a
\* session cookie whose token verifies to that username as subject and to
\* an expiry of the issue time plus the configured number of hours.
C1_LoginIssuesToken ==
    \A r \in Slots :
        Answered(r, "login") /\ Matching(req[r]) =>
            /\ resp[r].status = Ok
            /\ resp[r].set_cookie.kind = "jwt"
            /\ LET d == JwtDecode(resp[r].set_cookie, env.SECRET_KEY, resp[r].at)
               IN /\ d.error = ""
                  /\ d.sub = req[r].username
                  /\ d.exp = resp[r].at
                               + env.ACCESS_TOKEN_EXPIRE_HOURS * SecondsPerHour

C1_Witness ==
    \E r \in Slots :
        /\ Answered(r, "login") /\ Matching(req[r])
        /\ resp[r].status = Ok
        /\ env.ACCESS_TOKEN_EXPIRE_HOURS # DefaultExpireHours
        /\ resp[r].at > 0

\* C2: a login with an unknown username or a wrong password is answered
\* 401 without a session cookie, the same response for both causes.
C2_BadCredentialsRejected ==
    \A r \in Slots :
        Answered(r, "login") /\ ~Matching(req[r]) =>
            resp[r] = [status |-> Unauthorized, set_cookie |-> NoCookie,
                       body |-> <<>>, at |-> resp[r].at]

C2_Witness ==
    \E r \in Slots :
        /\ Answered(r, "login") /\ ~Matching(req[r])
        /\ \E i \in 1..Len(users) : users[i].username = req[r].username
        /\ resp[r].status = Unauthorized

\* C3: a token presented after its expiry and a token whose signature was
\* tampered with both fail verification, and the caller sees the same
\* unauthorized outcome for both.
C3_ExpiredAndTamperedRejected ==
    [][\A r \in Slots :
          /\ req[r].route = "get_messages" /\ pc[r] = "deps" /\ pc'[r] # "deps"
          /\ req[r].session.kind = "jwt"
          /\ \/ req[r].session.exp < now
             \/ req[r].session.sig
                    # <<req[r].session.sub, req[r].session.exp, env.SECRET_KEY>>
          => resp'[r] = [status |-> Unauthorized, set_cookie |-> NoCookie,
                         body |-> <<>>, at |-> now]]_vars

C3_Witness ==
    \E r \in Slots :
        /\ Answered(r, "get_messages")
        /\ req[r].session \in Issued
        /\ req[r].session.exp < resp[r].at
        /\ resp[r].status = Unauthorized

\* C4: the read route leaves dependency resolution for its handler body
\* exactly when the session cookie is present, validly signed and not
\* expired; otherwise the request is answered 401 without a storage session
\* and never reaches the body.
C4_ReadRouteGuarded ==
    [][\A r \in Slots :
          req[r].route = "get_messages" /\ pc[r] = "deps" /\ pc'[r] # "deps" =>
              IF ValidSession(req[r].session, env.SECRET_KEY, now)
              THEN pc'[r] = "body"
              ELSE /\ pc'[r] = "exit"
                   /\ resp'[r].status = Unauthorized
                   /\ resp'[r].body = <<>>
                   /\ ~dbOpen'[r]]_vars

C4_Witness ==
    \E r \in Slots :
        /\ req[r].route = "get_messages"
        /\ pc[r] = "body"
        /\ dbOpen[r]
        /\ req[r].session \in Issued

\* The rows of conversation cid, in table order.
RowsOf(cid) == SelectSeq(messages, LAMBDA m : m.conversation_id = cid)

\* Number of places of sequence out that hold e.
Occurrences(out, e) == Cardinality({i \in 1..Len(out) : out[i] = e})

\* C5: once appendMessage(cid, role, content) has returned its record, a
\* listMessages(cid) returns every message of cid once, among them exactly
\* one entry with the id, role, content and creation time of that record,
\* which carries the submitted role and content and an assigned id and time.
C5_AppendThenList ==
    [][\A a, b \in Slots :
          /\ Answered(a, "post_message") /\ resp[a].status = Ok
          /\ req[b].route = "get_messages" /\ req[b].cid = req[a].cid
          /\ pc[b] = "body" /\ pc'[b] = "exit"
          => LET rec == resp[a].body[1]
                 out == resp'[b].body
             IN /\ rec.conversation_id = req[a].cid
                /\ rec.role = req[a].role
                /\ rec.content = req[a].content
                /\ rec.id \in Nat \ {0}
                /\ rec.created_at \in Times
                /\ resp'[b].status = Ok
                /\ Len(out) = Len(RowsOf(req[b].cid))
                /\ Occurrences(out, [id |-> rec.id, role |-> rec.role,
                                     content |-> rec.content,
                                     created_at |-> rec.created_at]) = 1]_vars

C5_Witness ==
    \E a, b \in Slots :
        /\ Answered(a, "post_message") /\ resp[a].status = Ok
        /\ Answered(b, "get_messages") /\ resp[b].status = Ok
        /\ req[a].cid = req[b].cid
        /\ \E i \in 1..Len(resp[b].body) :
               resp[b].body[i].id = resp[a].body[1].id

\* C6: an authenticated listMessages on a conversation id without messages
\* answers 200 with the empty sequence, whether or not a Conversation record
\* exists for the id.
C6_ListOfUnusedIsEmpty ==
    [][\A r \in Slots :
          /\ req[r].route = "get_messages"
          /\ pc[r] = "body" /\ pc'[r] = "exit"
          /\ RowsOf(req[r].cid) = <<>>
          => resp'[r].status = Ok /\ resp'[r].body = <<>>]_vars

C6_Witness ==
    \E r \in Slots :
        /\ Answered(r, "get_messages")
        /\ resp[r].status = Ok /\ resp[r].body = <<>>
        /\ RowsOf(req[r].cid) = <<>>
        /\ \E i \in 1..Len(conversations) : conversations[i].id = req[r].cid
        /\ messages # <<>>

\* C7: in every reachable state there is at most one Conversation record
\* per conversation id; two appends to a fresh id leave exactly one.
C7_OneConversationPerId ==
    \A i, j \in 1..Len(conversations) :
        conversations[i].id = conversations[j].id => i = j

C7_Witness ==
    /\ Len(messages) = 2
    /\ messages[1].conversation_id = messages[2].conversation_id
    /\ Occurrences(conversations, [id |-> messages[1].conversation_id]) = 1
    /\ \E r \in Slots : pc[r] = "exit" /\ resp[r].status = ServerError

\* C8: listMessages(cid) returns all messages of cid in ascending order of
\* creation time, messages of equal creation time in ascending id order.
C8_ListOrderedByTimeThenId ==
    \A r \in Slots :
        Answered(r, "get_messages") /\ resp[r].status = Ok =>
            LET out == resp[r].body
            IN /\ Len(out) = Len(RowsOf(req[r].cid))
               /\ \A i, j \in 1..Len(out) :
                      i < j =>
                          \/ out[i].created_at < out[j].created_at
                          \/ /\ out[i].created_at = out[j].created_at
                             /\ out[i].id < out[j].id

\* C9: the append route is open: resolving its dependencies has the same
\* outcome for every session cookie, and every append is answered 200 with
\* the record of a stored row that carries the request's conversation id,
\* role and content.
C9_AppendRouteOpen ==
    /\ \A s1, s2 \in SessionChoices :
           SolveDeps(RouteDeps("post_message"), s1, env.SECRET_KEY, now, FALSE)
               = SolveDeps(RouteDeps("post_message"), s2, env.SECRET_KEY, now,
                           FALSE)
    /\ \A r \in Slots :
           req[r].route = "post_message" =>
               /\ resp[r].status \in {0, Ok}
               /\ pc[r] = "exit" =>
                      \E i \in 1..Len(messages) :
                          /\ messages[i].conversation_id = req[r].cid
                          /\ messages[i].role = req[r].role
                          /\ messages[i].content = req[r].content
                          /\ resp[r].body = <<MessageRecord(messages[i])>>

C9_Witness ==
    \E r \in Slots :
        /\ Answered(r, "post_message")
        /\ resp[r].status = Ok
        /\ req[r].session.kind = "jwt"
        /\ req[r].session.exp < now
        /\ req[r].session \in Issued

\* C10: every stored Message has a role of at most 20 characters.
C10_RoleFitsColumn ==
    \A i \in 1..Len(messages) : Len(messages[i].role) <= RoleColumnLen

\* A process start: the step that counts a boot.
Started == boots' = boots + 1

\* Both admin credentials are set in the environment e.
AdminConfigured(e) ==
    e.ADMIN_USERNAME \notin {None, ""} /\ e.ADMIN_PASSWORD \notin {None, ""}

\* Table t has a user called name.
HasUser(t, name) == \E i \in 1..Len(t) : t[i].username = name

\* C11: a start with a signing secret completes; it appends the admin user,
\* with a hash of the configured password, exactly when both admin
\* credentials are configured and no user has that username, and otherwise
\* leaves the users table as it was, so that a repeated start adds nothing.
C11_AdminBootstrap ==
    [][Started /\ env'.SECRET_KEY \notin {None, ""} =>
          /\ proc' = "up"
          /\ IF AdminConfigured(env') /\ ~HasUser(users, env'.ADMIN_USERNAME)
             THEN /\ Len(users') = Len(users) + 1
                  /\ SubSeq(users', 1, Len(users)) = users
                  /\ users'[Len(users')].username = env'.ADMIN_USERNAME
                  /\ users'[Len(users')].password_hash.digest
                         = <<env'.ADMIN_PASSWORD,
                             users'[Len(users')].password_hash.salt>>
             ELSE users' = users]_vars

C11_Witness ==
    /\ boots >= 2
    /\ proc = "up"
    /\ AdminConfigured(env)
    /\ Len(users) = 1
    /\ users[1].password_hash.digest
           = <<env.ADMIN_PASSWORD, users[1].password_hash.salt>>

\* C12: usernames are unique in every reachable state, and no step (a
\* route, or a restart with another admin password) changes or removes a
\* user record.
C12_UsersUniqueAndImmutable ==
    /\ [](\A i, j \in 1..Len(users) :
              users[i].username = users[j].username => i = j)
    /\ [][/\ Len(users') >= Len(users)
          /\ \A i \in 1..Len(users) : users'[i] = users[i]]_vars

C12_Witness ==
    /\ boots >= 2
    /\ proc = "up"
    /\ AdminConfigured(env)
    /\ Len(users) = 1
    /\ users[1].username = env.ADMIN_USERNAME
    /\ users[1].password_hash.digest
           # <<env.ADMIN_PASSWORD, users[1].password_hash.salt>>

\* C13: with SECRET_KEY unset or empty the process fails to start: the
\* start leaves the users table alone, the process is never up and no
\* request is in a slot.
C13_NoSecretNoStart ==
    /\ [](env.SECRET_KEY \in {None, ""} =>
              /\ proc # "up"
              /\ \A r \in Slots : pc[r] = "idle" /\ ~dbOpen[r])
    /\ [][Started /\ env'.SECRET_KEY \in {None, ""} =>
              proc' = "failed" /\ UNCHANGED dbVars]_vars

C13_Witness ==
    /\ proc = "failed"
    /\ env.SECRET_KEY = ""
    /\ AdminConfigured(env)
    /\ users = <<>>

\* C14: when two appends to an unused conversation id run concurrently,
\* every one of them is answered 200 with its message stored, and exactly
\* one Conversation record for the id exists.
C14_ConcurrentAppendsSucceed ==
    \A r \in Slots :
        Answered(r, "post_message") =>
            /\ resp[r].status = Ok
            /\ Occurrences(conversations, [id |-> req[r].cid]) = 1
            /\ \E i \in 1..Len(messages) :
                   resp[r].body = <<MessageRecord(messages[i])>>

\* C15: the ledger is append-only: every step keeps the stored messages as
\* they are, in place, and a listMessages(cid) made while the result of an
\* earlier listMessages(cid) is held contains every message of that result.
C15_LedgerAppendOnly ==
    [][/\ Len(messages') >= Len(messages)
       /\ \A i \in 1..Len(messages) : messages'[i] = messages[i]
       /\ \A a, b \in Slots :
              /\ Answered(a, "get_messages") /\ resp[a].status = Ok
              /\ req[b].route = "get_messages" /\ req[b].cid = req[a].cid
              /\ pc[b] = "body" /\ pc'[b] = "exit"
              => \A i \in 1..Len(resp[a].body) :
                     Occurrences(resp'[b].body, resp[a].body[i]) = 1]_vars

C15_Witness ==
    \E a, b \in Slots :
        /\ Answered(a, "get_messages") /\ resp[a].status = Ok
        /\ Answered(b, "get_messages") /\ resp[b].status = Ok
        /\ req[a].cid = req[b].cid
        /\ Len(resp[a].body) = 1
        /\ Len(resp[b].body) = 2

\* C16: message ids are pairwise distinct across conversations and grow
\* with insertion, and an append that completes returns an id greater than
\* the id of every message stored before it, also when appends interleave.
C16_IdsDistinctAndMonotonic ==
    /\ [](\A i, j \in 1..Len(messages) :
              i < j => messages[i].id < messages[j].id)
    /\ [][\A r \in Slots :
              pc[r] = "insert" /\ pc'[r] = "exit" =>
                  /\ resp'[r].body[1].id \in Nat \ {0}
                  /\ \A i \in 1..Len(messages) :
                         resp'[r].body[1].id > messages[i].id]_vars

C16_Witness ==
    /\ \A r \in Slots : Answered(r, "post_message") /\ resp[r].status = Ok
    /\ Len(messages) = 2
    /\ messages[1].conversation_id # messages[2].conversation_id

\* C17: a storage session is held only by a request that is being handled:
\* a request in its handler holds one, a request whose response has been
\* delivered holds none, whatever the response was, and a request rejected
\* by the session guard never held one.
C17_SessionsReleased ==
    \A r \in Slots :
        /\ pc[r] \in {"body", "create", "insert"} => dbOpen[r]
        /\ pc[r] \in {"idle", "deps"} => ~dbOpen[r]
        /\ Answered(r, "get_messages") /\ resp[r].status = Unauthorized
               => ~dbOpen[r]

C17_Witness ==
    \E a, b \in Slots :
        /\ Answered(a, "post_message")
        /\ resp[a].status = ServerError
        /\ dbOpen[a]
        /\ pc[b] = "idle" /\ ~dbOpen[b]
        /\ RowsOf(req[a].cid) # <<>>

\* C18: a step of a login or listMessages request, answered or rejected,
\* leaves the users, conversations and messages tables unchanged; a list of
\* an unknown conversation id does not create the Conversation.
C18_ReadsLeaveStorage ==
    [][\A r \in Slots :
          /\ pc'[r] # pc[r]
          /\ \/ req[r].route \in {"login", "get_messages"}
             \/ req'[r].route \in {"login", "get_messages"}
          => UNCHANGED dbVars]_vars

C18_Witness ==
    \E r \in Slots :
        /\ Answered(r, "get_messages")
        /\ resp[r].status = Ok
        /\ \A i \in 1..Len(conversations) : conversations[i].id # req[r].cid
        /\ conversations # <<>>

\* C19: in every reachable state, between the steps of interleaved appends
\* too, every stored message's conversation_id is the id of a stored
\* Conversation.
C19_MessagesHaveConversation ==
    \A i \in 1..Len(messages) :
        \E j \in 1..Len(conversations) :
            conversations[j].id = messages[i].conversation_id

C19_Witness ==
    /\ messages # <<>>
    /\ \E r \in Slots :
           /\ pc[r] = "insert"
           /\ convo[r] = <<>>
           /\ RowsOf(req[r].cid) = <<>>

\* C20: listMessages(cid) returns only messages stored for cid, and the
\* insert of an append to conversation c leaves what listMessages can
\* return for every other conversation unchanged.
C20_ConversationsIsolated ==
    [][\A r \in Slots :
          /\ /\ req[r].route = "get_messages"
             /\ pc[r] = "body" /\ pc'[r] = "exit"
             => \A i \in 1..Len(resp'[r].body) :
                    \E k \in 1..Len(messages) :
                        /\ messages[k].conversation_id = req[r].cid
                        /\ messages[k].id = resp'[r].body[i].id
          /\ /\ pc[r] = "insert" /\ pc'[r] = "exit"
             => \A c \in ConversationIds \ {req[r].cid} :
                    get_messages(messages', c) = get_messages(messages, c)]_vars

C20_Witness ==
    \E r \in Slots :
        /\ Answered(r, "get_messages")
        /\ resp[r].status = Ok
        /\ Len(resp[r].body) = 1
        /\ Len(messages) = 2
        /\ messages[1].conversation_id # messages[2].conversation_id

====
